---- MODULE Spec2Model ----
(***************************************************************************)
(* Model of helpscout/docs_client.py: the HelpScoutDocs client and its     *)
(* four article operations, driven against a transport that answers every  *)
(* request with an arbitrary response.                                     *)
(*                                                                         *)
(* Python values: a str that the code computes on (base_url, the URL, the  *)
(* Location header, article_id) is a sequence of one-character strings;    *)
(* every other str is a TLA+ string; a list is a sequence; a dict is a     *)
(* function from its keys; None is the record None, and a parameter that   *)
(* may be None holds None or Some(v).                                      *)
(***************************************************************************)
EXTENDS Integers, Sequences, FiniteSets, TLC

VARIABLES client, calls, request, last

vars == <<client, calls, request, last>>

---------------------------------------------------------------------------
(* Bounds of the model *)

\* calls the transport may receive in one behaviour
MaxCalls == 2
\* longest base_url handed to the constructor
MaxUrlLen == 2
\* longest value of a Location response header
MaxLocLen == 2

---------------------------------------------------------------------------
(* Python values *)

None == [none |-> TRUE]
Some(v) == [none |-> FALSE, val |-> v]

EmptyDict == [k \in {} |-> None]

\* all sequences over alphabet of length at most n
RECURSIVE StrsUpTo(_, _)
StrsUpTo(alphabet, n) ==
    IF n = 0 THEN {<<>>}
    ELSE LET shorter == StrsUpTo(alphabet, n - 1)
         IN  shorter \cup {Append(s, c) : s \in shorter, c \in alphabet}

\* str.rstrip('/')
RECURSIVE RStripSlash(_)
RStripSlash(s) ==
    IF Len(s) > 0 /\ s[Len(s)] = "/"
    THEN RStripSlash(SubSeq(s, 1, Len(s) - 1))
    ELSE s

\* str.split('/'): the list of the pieces between the slashes
RECURSIVE SplitSlash(_)
SplitSlash(s) ==
    IF \A i \in 1..Len(s) : s[i] # "/"
    THEN <<s>>
    ELSE LET i == CHOOSE j \in 1..Len(s) :
                      s[j] = "/" /\ \A k \in 1..(j - 1) : s[k] # "/"
         IN  <<SubSeq(s, 1, i - 1)>> \o SplitSlash(SubSeq(s, i + 1, Len(s)))

\* bool(x) of an optional str (TLA+ string)
TruthyStr(x) == x # None /\ x.val # ""

\* bool(x) of an optional list
TruthyList(x) == x # None /\ Len(x.val) > 0

---------------------------------------------------------------------------
(* The transport (requests) as the client sees it *)

Timeout == 30

\* Response.ok that takes only the client errors for failures
OkBelow500(status_code) == ~(400 <= status_code /\ status_code < 500)

\* Response.ok: raise_for_status() raises for 400 <= status_code < 600 only
Ok(status_code) == ~(400 <= status_code /\ status_code < 600)

\* Response.json(): the parsed body, or the decoding error it raises
ParseJSON(text) ==
    CASE text = "{}" -> [ok |-> TRUE, value |-> EmptyDict]
      [] text = "{\"id\": \"a1\"}" -> [ok |-> TRUE, value |-> [id |-> "a1"]]
      [] OTHER -> [ok |-> FALSE]

StatusCodes == {200, 201, 304, 401, 500}
Texts == {"", "{}", "{\"id\": \"a1\"}", "<html>"}
Locations == StrsUpTo({"/", "a"}, MaxLocLen)

\* the responses the transport may give; a Location header comes with a
\* 201 that has no body, and with one 201 that has a body
Responses ==
    {[status_code |-> s, text |-> t, headers |-> EmptyDict] :
        s \in StatusCodes, t \in Texts}
    \cup
    {[status_code |-> 201, text |-> "", headers |-> [Location |-> l]] :
        l \in Locations}
    \cup
    {[status_code |-> 201, text |-> "{}", headers |-> [Location |-> <<"a">>]]}

\* one success and one failure, for the calls whose arguments vary
SomeResponses ==
    {[status_code |-> 200, text |-> "{\"id\": \"a1\"}", headers |-> EmptyDict],
     [status_code |-> 401, text |-> "<html>", headers |-> EmptyDict]}

NoResponse == [none |-> TRUE]
NoRequest == [none |-> TRUE]

---------------------------------------------------------------------------
(* Outcomes of a call *)

Return(v) == [kind |-> "return", value |-> v]
Raise(type, message) ==
    [kind |-> "raise", exc |-> [type |-> type, message |-> message]]

\* HelpScoutException(f'Failed to {verb} article: {status_code} - {text}')
ApiError(verb, response) ==
    Raise("HelpScoutException",
          <<"Failed to ", verb, " article: ", response.status_code, " - ",
            response.text>>)

\* response.json() whose decoding error is swallowed
JsonResultSwallowed(response) ==
    IF ParseJSON(response.text).ok
    THEN Return(ParseJSON(response.text).value)
    ELSE Return(None)

\* what a call of response.json() that nothing catches does to the caller
JsonResult(response) ==
    IF ParseJSON(response.text).ok
    THEN Return(ParseJSON(response.text).value)
    ELSE Raise("JSONDecodeError", <<response.text>>)

---------------------------------------------------------------------------
(* HelpScoutDocs.__init__ *)

ApiKeys == {None, Some(""), Some("key")}
BaseUrls == StrsUpTo({"h", "/"}, MaxUrlLen)

\* `if api_key is None`
KeyIsNone(api_key) == api_key = None

\* `if not api_key`
KeyMissing(api_key) == ~TruthyStr(api_key)

\* base_url with one trailing slash removed, + '/'
NormalizeOneSlash(base_url) ==
    (IF Len(base_url) > 0 /\ base_url[Len(base_url)] = "/"
     THEN SubSeq(base_url, 1, Len(base_url) - 1)
     ELSE base_url) \o <<"/">>

\* base_url.rstrip('/') + '/'
NormalizeBaseUrl(base_url) == RStripSlash(base_url) \o <<"/">>

NoClient == [none |-> TRUE]

Construct ==
    /\ client = NoClient
    /\ \E api_key \in ApiKeys, base_url \in BaseUrls :
          /\ IF KeyMissing(api_key)
             THEN /\ client' = NoClient
                  /\ last' = [op |-> "__init__",
                              args |-> [api_key |-> api_key, base_url |-> base_url],
                              response |-> NoResponse,
                              outcome |-> Raise("HelpScoutAuthenticationException",
                                                <<"Docs API key is required">>),
                              requests |-> 0]
             ELSE /\ client' = [none |-> FALSE,
                                api_key |-> api_key.val,
                                base_url |-> NormalizeBaseUrl(base_url),
                                auth |-> [username |-> api_key.val, password |-> "X"]]
                  /\ last' = [op |-> "__init__",
                              args |-> [api_key |-> api_key, base_url |-> base_url],
                              response |-> NoResponse,
                              outcome |-> Return(None),
                              requests |-> 0]
    /\ UNCHANGED <<calls, request>>

---------------------------------------------------------------------------
(* What every operation hands to the transport *)

Articles == <<"a", "r", "t", "i", "c", "l", "e", "s">>

\* f'{self.base_url}articles'
CollectionUrl(base_url) == base_url \o Articles

\* f'{self.base_url}articles/{article_id}'
ArticleUrl(base_url, article_id) == base_url \o Articles \o <<"/">> \o article_id

\* self._headers()
Headers == [ContentType |-> "application/json"]

\* a request that is repeated once
SentTwice(n) == n + 2

\* requests.post / put / get / delete is called once: the transport's call count
Sent(n) == n + 1

ArticleIds == {<<"x">>, <<"y", "2">>}

---------------------------------------------------------------------------
(* HelpScoutDocs.create_article *)

CreateArgs ==
    [collection_id : {"c1"}, name : {"N"}, text : {"T"},
     status : {"notpublished"},
     categories : {None, Some(<<>>), Some(<<"c9">>)},
     tags : {None, Some(<<>>), Some(<<"t1">>)},
     related_articles : {None, Some(<<>>), Some(<<"r1">>)},
     slug : {None, Some(""), Some("s")}]

\* create_article(collection_id, name, text): every optional parameter left out
PlainCreateArgs ==
    {a \in CreateArgs :
        /\ a.categories = None /\ a.tags = None
        /\ a.related_articles = None /\ a.slug = None}

\* the (arguments, response) pairs of the calls of create_article
CreateInputs ==
    (CreateArgs \X SomeResponses) \cup (PlainCreateArgs \X Responses)

\* `data` of create_article filled with `is not None` tests
CreateDataNotNone(a) ==
    LET keys == {"collectionId", "name", "text", "status"}
                \cup (IF a.categories # None THEN {"categories"} ELSE {})
                \cup (IF a.tags # None THEN {"tags"} ELSE {})
                \cup (IF a.related_articles # None THEN {"related"} ELSE {})
                \cup (IF a.slug # None THEN {"slug"} ELSE {})
    IN  [k \in keys |->
            CASE k = "collectionId" -> a.collection_id
              [] k = "name" -> a.name
              [] k = "text" -> a.text
              [] k = "status" -> a.status
              [] k = "categories" -> a.categories.val
              [] k = "tags" -> a.tags.val
              [] k = "related" -> a.related_articles.val
              [] k = "slug" -> a.slug.val]

\* the dict `data` of create_article
CreateData(a) ==
    LET keys == {"collectionId", "name", "text", "status"}
                \cup (IF TruthyList(a.categories) THEN {"categories"} ELSE {})
                \cup (IF TruthyList(a.tags) THEN {"tags"} ELSE {})
                \cup (IF TruthyList(a.related_articles) THEN {"related"} ELSE {})
                \cup (IF TruthyStr(a.slug) THEN {"slug"} ELSE {})
    IN  [k \in keys |->
            CASE k = "collectionId" -> a.collection_id
              [] k = "name" -> a.name
              [] k = "text" -> a.text
              [] k = "status" -> a.status
              [] k = "categories" -> a.categories.val
              [] k = "tags" -> a.tags.val
              [] k = "related" -> a.related_articles.val
              [] k = "slug" -> a.slug.val]

\* location.split('/')[0] if location else None
ArticleIdFromFirstPart(headers) ==
    LET location == IF "Location" \in DOMAIN headers THEN headers.Location ELSE <<>>
    IN  IF Len(location) > 0
        THEN Some(SplitSlash(location)[1])
        ELSE None

\* location.split('/')[-1] if location else None, location the Location header or ''
ArticleIdFromLocation(headers) ==
    LET location == IF "Location" \in DOMAIN headers THEN headers.Location ELSE <<>>
    IN  IF Len(location) > 0
        THEN LET parts == SplitSlash(location) IN Some(parts[Len(parts)])
        ELSE None

\* create_article without the `except ValueError` fallback
CreateResultNoFallback(response) ==
    IF Ok(response.status_code)
    THEN IF response.status_code = 201 /\ response.text = ""
         THEN Return([id |-> ArticleIdFromLocation(response.headers),
                      status |-> "created"])
         ELSE JsonResult(response)
    ELSE ApiError("create", response)

\* the `if response.ok:` statement of create_article
CreateResult(response) ==
    IF Ok(response.status_code)
    THEN IF response.status_code = 201 /\ response.text = ""
         THEN Return([id |-> ArticleIdFromLocation(response.headers),
                      status |-> "created"])
         ELSE IF ParseJSON(response.text).ok
              THEN Return(ParseJSON(response.text).value)
              ELSE Return([status_code |-> response.status_code,
                           text |-> response.text])
    ELSE ApiError("create", response)

CreateArticle ==
    /\ client # NoClient
    /\ calls < MaxCalls
    /\ \E in \in CreateInputs :
          LET a == in[1]
              response == in[2]
          IN
          /\ calls' = Sent(calls)
          /\ request' = [method |-> "POST",
                         url |-> CollectionUrl(client.base_url),
                         headers |-> Headers,
                         json |-> CreateData(a),
                         auth |-> client.auth,
                         timeout |-> Timeout]
          /\ last' = [op |-> "create_article", args |-> a,
                      response |-> response,
                      outcome |-> CreateResult(response),
                      requests |-> calls' - calls]
    /\ UNCHANGED client

---------------------------------------------------------------------------
(* HelpScoutDocs.update_article *)

UpdateArgs ==
    [article_id : {<<"x">>},
     name : {None, Some("")},
     text : {None, Some("T")},
     status : {None, Some("draft")},
     categories : {None, Some(<<>>)},
     tags : {None, Some(<<>>), Some(<<"t1">>)},
     related_articles : {None, Some(<<"r1">>)},
     slug : {None, Some("")}]

\* update_article(article_id), update_article(article_id, tags=[]) and
\* update_article(article_id, name='')
PlainUpdateArgs ==
    {a \in UpdateArgs :
        /\ a.text = None /\ a.status = None /\ a.categories = None
        /\ a.related_articles = None /\ a.slug = None
        /\ a.tags \in {None, Some(<<>>)}
        /\ a.name = None \/ a.tags = None}

\* the (arguments, response) pairs of the calls of update_article
UpdateInputs ==
    (UpdateArgs \X SomeResponses) \cup (PlainUpdateArgs \X Responses)

\* `data` of update_article filled with truthiness tests
UpdateDataTruthy(a) ==
    LET keys == (IF TruthyStr(a.name) THEN {"name"} ELSE {})
                \cup (IF TruthyStr(a.text) THEN {"text"} ELSE {})
                \cup (IF TruthyStr(a.status) THEN {"status"} ELSE {})
                \cup (IF TruthyList(a.categories) THEN {"categories"} ELSE {})
                \cup (IF TruthyList(a.tags) THEN {"tags"} ELSE {})
                \cup (IF TruthyList(a.related_articles) THEN {"related"} ELSE {})
                \cup (IF TruthyStr(a.slug) THEN {"slug"} ELSE {})
    IN  [k \in keys |->
            CASE k = "name" -> a.name.val
              [] k = "text" -> a.text.val
              [] k = "status" -> a.status.val
              [] k = "categories" -> a.categories.val
              [] k = "tags" -> a.tags.val
              [] k = "related" -> a.related_articles.val
              [] k = "slug" -> a.slug.val]

\* the dict `data` of update_article
UpdateData(a) ==
    LET keys == (IF a.name # None THEN {"name"} ELSE {})
                \cup (IF a.text # None THEN {"text"} ELSE {})
                \cup (IF a.status # None THEN {"status"} ELSE {})
                \cup (IF a.categories # None THEN {"categories"} ELSE {})
                \cup (IF a.tags # None THEN {"tags"} ELSE {})
                \cup (IF a.related_articles # None THEN {"related"} ELSE {})
                \cup (IF a.slug # None THEN {"slug"} ELSE {})
    IN  [k \in keys |->
            CASE k = "name" -> a.name.val
              [] k = "text" -> a.text.val
              [] k = "status" -> a.status.val
              [] k = "categories" -> a.categories.val
              [] k = "tags" -> a.tags.val
              [] k = "related" -> a.related_articles.val
              [] k = "slug" -> a.slug.val]

\* no check of `data` at all
NeverNothing(data) == FALSE

\* `if not data`
NothingToUpdate(data) == DOMAIN data = {}

\* the `if response.ok:` statement of update_article
UpdateResult(response) ==
    IF Ok(response.status_code)
    THEN JsonResult(response)
    ELSE ApiError("update", response)

UpdateArticle ==
    /\ client # NoClient
    /\ calls < MaxCalls
    /\ \E in \in UpdateInputs :
          LET a == in[1]
              response == in[2]
          IN
          IF NothingToUpdate(UpdateData(a))
          THEN /\ last' = [op |-> "update_article", args |-> a,
                           response |-> NoResponse,
                           outcome |-> Raise("ValueError",
                               <<"At least one field must be provided for update">>),
                           requests |-> 0]
               /\ UNCHANGED <<calls, request>>
          ELSE /\ calls' = Sent(calls)
               /\ request' = [method |-> "PUT",
                              url |-> ArticleUrl(client.base_url, a.article_id),
                              headers |-> Headers,
                              json |-> UpdateData(a),
                              auth |-> client.auth,
                              timeout |-> Timeout]
               /\ last' = [op |-> "update_article", args |-> a,
                           response |-> response,
                           outcome |-> UpdateResult(response),
                           requests |-> calls' - calls]
    /\ UNCHANGED client

---------------------------------------------------------------------------
(* HelpScoutDocs.get_article and HelpScoutDocs.delete_article *)

\* the `if response.ok:` statement of get_article
GetResult(response) ==
    IF Ok(response.status_code)
    THEN JsonResult(response)
    ELSE ApiError("get", response)

GetArticle ==
    /\ client # NoClient
    /\ calls < MaxCalls
    /\ \E article_id \in ArticleIds, response \in Responses :
          /\ calls' = Sent(calls)
          /\ request' = [method |-> "GET",
                         url |-> ArticleUrl(client.base_url, article_id),
                         headers |-> Headers,
                         json |-> None,
                         auth |-> client.auth,
                         timeout |-> Timeout]
          /\ last' = [op |-> "get_article",
                      args |-> [article_id |-> article_id],
                      response |-> response,
                      outcome |-> GetResult(response),
                      requests |-> calls' - calls]
    /\ UNCHANGED client

\* the `if not response.ok:` statement of delete_article
DeleteResult(response) ==
    IF ~Ok(response.status_code)
    THEN ApiError("delete", response)
    ELSE Return(None)

DeleteArticle ==
    /\ client # NoClient
    /\ calls < MaxCalls
    /\ \E article_id \in ArticleIds, response \in Responses :
          /\ calls' = Sent(calls)
          /\ request' = [method |-> "DELETE",
                         url |-> ArticleUrl(client.base_url, article_id),
                         headers |-> Headers,
                         json |-> None,
                         auth |-> client.auth,
                         timeout |-> Timeout]
          /\ last' = [op |-> "delete_article",
                      args |-> [article_id |-> article_id],
                      response |-> response,
                      outcome |-> DeleteResult(response),
                      requests |-> calls' - calls]
    /\ UNCHANGED client

---------------------------------------------------------------------------

Init ==
    /\ client = NoClient
    /\ calls = 0
    /\ request = NoRequest
    /\ last = [op |-> "none", args |-> None, response |-> NoResponse,
               outcome |-> Return(None), requests |-> 0]

Next ==
    \/ Construct
    \/ CreateArticle
    \/ UpdateArticle
    \/ GetArticle
    \/ DeleteArticle

Spec == Init /\ [][Next]_vars

---------------------------------------------------------------------------
(* Vocabulary of the properties *)

ArticleOps == {"create_article", "update_article", "get_article", "delete_article"}

\* the last call was one of the four operations and the transport answered it
Answered == last.op \in ArticleOps /\ last.response # NoResponse

Is2xx(status_code) == 200 <= status_code /\ status_code <= 299

Is4xx5xx(status_code) == 400 <= status_code /\ status_code <= 599

VerbOf(op) ==
    CASE op = "create_article" -> "create"
      [] op = "update_article" -> "update"
      [] op = "get_article" -> "get"
      [] op = "delete_article" -> "delete"

\* the last call raised HelpScoutException with this status code and body text
RaisedApiError(status_code, text) ==
    /\ last.outcome.kind = "raise"
    /\ last.outcome.exc.type = "HelpScoutException"
    /\ last.outcome.exc.message[2] = VerbOf(last.op)
    /\ last.outcome.exc.message[4] = status_code
    /\ last.outcome.exc.message[6] = text

\* seg is what follows the last slash of s (all of s when s has no slash)
IsFinalSegment(seg, s) ==
    \E i \in 0..Len(s) :
        /\ seg = SubSeq(s, i + 1, Len(s))
        /\ \A j \in 1..Len(seg) : seg[j] # "/"
        /\ i = 0 \/ s[i] = "/"

\* s ends with one slash and no more
EndsWithOneSlash(s) ==
    /\ Len(s) >= 1
    /\ s[Len(s)] = "/"
    /\ Len(s) >= 2 => s[Len(s) - 1] # "/"

UpdateFields ==
    {"name", "text", "status", "categories", "tags", "related_articles", "slug"}

\* the wire key of a parameter
WireKey(field) == IF field = "related_articles" THEN "related" ELSE field

---------------------------------------------------------------------------
(* C1 *)

\* C1 as stated: whenever the transport returns a response whose status code
\* is outside the 2xx range, each of the four operations raises
\* HelpScoutException carrying that status code and that body text.
C1_RaisesOutside2xx ==
    (Answered /\ ~Is2xx(last.response.status_code))
        => RaisedApiError(last.response.status_code, last.response.text)

\* C1 amended: whenever the transport returns a response whose status code is
\* in 400..599 (the responses whose `ok` is false), each of the four
\* operations raises HelpScoutException carrying the exact status code and the
\* exact body text of that response, and returns no result.
C1_RaisesOn4xx5xx ==
    (Answered /\ Is4xx5xx(last.response.status_code))
        => RaisedApiError(last.response.status_code, last.response.text)

C1_Witness ==
    /\ last.op = "delete_article"
    /\ last.response # NoResponse
    /\ last.response.status_code = 500
    /\ last.response.text = "<html>"
    /\ last.outcome.kind = "raise"

---------------------------------------------------------------------------
(* C2 *)

\* C2: update_article with every optional field left unprovided raises
\* ValueError, not the API error, and the call has handed the transport no
\* request.
C2_UpdateWithoutFieldsRaisesValueError ==
    (last.op = "update_article" /\ \A f \in UpdateFields : last.args[f] = None)
        => /\ last.outcome.kind = "raise"
           /\ last.outcome.exc.type = "ValueError"
           /\ last.outcome.exc.type # "HelpScoutException"
           /\ last.response = NoResponse
           /\ last.requests = 0

C2_Witness ==
    /\ last.op = "update_article"
    /\ \A f \in UpdateFields : last.args[f] = None
    /\ last.outcome.kind = "raise"
    /\ calls = 0
    /\ request = NoRequest

---------------------------------------------------------------------------
(* C3 *)

\* C3: constructing with an empty or absent API key fails with
\* HelpScoutAuthenticationException before any request, and no later call of
\* the four operations raises that exception, whatever the response.
C3_AuthErrorOnlyAtConstruction ==
    /\ (last.op = "__init__" /\ last.args.api_key \in {None, Some("")})
          => /\ last.outcome.kind = "raise"
             /\ last.outcome.exc.type = "HelpScoutAuthenticationException"
             /\ client = NoClient
             /\ last.requests = 0
             /\ calls = 0
             /\ request = NoRequest
    /\ (last.op \in ArticleOps /\ last.outcome.kind = "raise")
          => last.outcome.exc.type # "HelpScoutAuthenticationException"
    /\ client # NoClient => client.api_key # ""

C3_Witness ==
    /\ last.op = "__init__"
    /\ last.args.api_key = Some("")
    /\ last.outcome.kind = "raise"
    /\ client = NoClient

---------------------------------------------------------------------------
(* C4 *)

\* C4: on status 201 with an empty body create_article returns a result
\* marked 'created' whose id is the final path segment of the Location
\* header, and None when there is no Location header (or its value is
\* empty, which has no segment); it raises nothing.
C4_CreatedIdFromLocation ==
    (/\ last.op = "create_article"
     /\ last.response.status_code = 201
     /\ last.response.text = "")
        => /\ last.outcome.kind = "return"
           /\ DOMAIN last.outcome.value = {"id", "status"}
           /\ last.outcome.value.status = "created"
           /\ IF "Location" \notin DOMAIN last.response.headers
              THEN last.outcome.value.id = None
              ELSE IF last.response.headers.Location = <<>>
              THEN last.outcome.value.id = None
              ELSE /\ last.outcome.value.id # None
                   /\ IsFinalSegment(last.outcome.value.id.val,
                                     last.response.headers.Location)

C4_Witness ==
    /\ last.op = "create_article"
    /\ last.response.status_code = 201
    /\ last.response.text = ""
    /\ "Location" \in DOMAIN last.response.headers
    /\ last.response.headers.Location = <<"/", "a">>
    /\ last.outcome = Return([id |-> Some(<<"a">>), status |-> "created"])

---------------------------------------------------------------------------
(* C5 *)

\* C5: the keys of the JSON body create_article sends are collectionId, name,
\* text and status plus the wire key of each optional parameter whose value
\* is neither None nor empty, each with the value given; no optional key is
\* sent with an empty value.
C5_CreateBodyKeys ==
    last.op = "create_article"
        => LET a == last.args
               json == request.json
               given(x, empty) == x # None /\ x # Some(empty)
           IN  /\ last.requests = 1
               /\ request.method = "POST"
               /\ DOMAIN json =
                     {"collectionId", "name", "text", "status"}
                     \cup (IF given(a.categories, <<>>) THEN {"categories"} ELSE {})
                     \cup (IF given(a.tags, <<>>) THEN {"tags"} ELSE {})
                     \cup (IF given(a.related_articles, <<>>) THEN {"related"} ELSE {})
                     \cup (IF given(a.slug, "") THEN {"slug"} ELSE {})
               /\ json["collectionId"] = a.collection_id
               /\ json["name"] = a.name
               /\ json["text"] = a.text
               /\ json["status"] = a.status
               /\ "categories" \in DOMAIN json
                     => Some(json["categories"]) = a.categories /\ json["categories"] # <<>>
               /\ "tags" \in DOMAIN json
                     => Some(json["tags"]) = a.tags /\ json["tags"] # <<>>
               /\ "related" \in DOMAIN json
                     => Some(json["related"]) = a.related_articles /\ json["related"] # <<>>
               /\ "slug" \in DOMAIN json
                     => Some(json["slug"]) = a.slug /\ json["slug"] # ""

C5_Witness ==
    /\ last.op = "create_article"
    /\ last.args.categories = None
    /\ last.args.tags = Some(<<>>)
    /\ last.args.related_articles = Some(<<"r1">>)
    /\ last.args.slug = Some("")
    /\ DOMAIN request.json = {"collectionId", "name", "text", "status", "related"}

---------------------------------------------------------------------------
(* C6 *)

\* C6: when at least one optional field is provided, the keys of the JSON
\* body update_article PUTs are the wire keys of the provided parameters, each
\* with the provided value, an empty list or empty string included.
C6_UpdateBodyKeys ==
    (last.op = "update_article" /\ \E f \in UpdateFields : last.args[f] # None)
        => /\ last.requests = 1
           /\ request.method = "PUT"
           /\ DOMAIN request.json =
                 {WireKey(f) : f \in {g \in UpdateFields : last.args[g] # None}}
           /\ \A f \in UpdateFields :
                 last.args[f] # None
                    => Some(request.json[WireKey(f)]) = last.args[f]

C6_Witness ==
    /\ last.op = "update_article"
    /\ last.args.tags = Some(<<>>)
    /\ last.args.name = Some("")
    /\ last.args.related_articles = None
    /\ "tags" \in DOMAIN request.json
    /\ request.json["tags"] = <<>>
    /\ "name" \in DOMAIN request.json

---------------------------------------------------------------------------
(* C7 *)

\* C7: the stored base URL is the constructor's base URL with its trailing
\* slashes replaced by exactly one, normalizing it again leaves it unchanged,
\* and every request URL is the stored base URL followed by 'articles' or
\* 'articles/{id}', with a single slash at the join.
C7_BaseUrlHasOneTrailingSlash ==
    client # NoClient
        => /\ EndsWithOneSlash(client.base_url)
           /\ NormalizeBaseUrl(client.base_url) = client.base_url
           /\ last.op = "__init__"
                 => \E n \in 0..Len(last.args.base_url) :
                       LET stem == SubSeq(last.args.base_url, 1,
                                          Len(last.args.base_url) - n)
                       IN  /\ last.args.base_url = stem \o [i \in 1..n |-> "/"]
                           /\ Len(stem) > 0 => stem[Len(stem)] # "/"
                           /\ client.base_url = stem \o <<"/">>
           /\ (last.op \in ArticleOps /\ last.requests > 0)
                 => /\ request.url =
                          client.base_url \o Articles \o
                          (IF last.op = "create_article"
                           THEN <<>>
                           ELSE <<"/">> \o last.args.article_id)
                    /\ request.url[Len(client.base_url)] = "/"
                    /\ request.url[Len(client.base_url) + 1] = "a"
                    /\ Len(client.base_url) >= 2
                          => request.url[Len(client.base_url) - 1] # "/"

C7_Witness ==
    /\ client # NoClient
    /\ last.op = "__init__"
    /\ last.args.base_url = <<"/", "/">>
    /\ client.base_url = <<"/">>

---------------------------------------------------------------------------
(* C8 *)

\* C8 as stated: update_article and get_article, on any response with a
\* success status, return the parsed JSON body of that response.
C8_ReturnsParsedJsonOnAnySuccess ==
    (/\ last.op \in {"update_article", "get_article"}
     /\ last.response # NoResponse
     /\ Is2xx(last.response.status_code))
        => /\ last.outcome.kind = "return"
           /\ ParseJSON(last.response.text).ok
           /\ last.outcome.value = ParseJSON(last.response.text).value

\* C8 amended: update_article and get_article, on a response with a success
\* status whose body is valid JSON, return the parsed JSON body; when the body
\* is not valid JSON (an empty body included) they return nothing and the
\* decoding error of response.json() reaches the caller.
C8_ReturnsParsedJsonWhenBodyIsJson ==
    (/\ last.op \in {"update_article", "get_article"}
     /\ last.response # NoResponse
     /\ Is2xx(last.response.status_code))
        => IF ParseJSON(last.response.text).ok
           THEN /\ last.outcome.kind = "return"
                /\ last.outcome.value = ParseJSON(last.response.text).value
           ELSE /\ last.outcome.kind = "raise"
                /\ last.outcome.exc.type = "JSONDecodeError"

C8_Witness ==
    /\ last.op = "get_article"
    /\ last.response # NoResponse
    /\ last.response.status_code = 200
    /\ last.response.text = "{\"id\": \"a1\"}"
    /\ last.outcome = Return([id |-> "a1"])

---------------------------------------------------------------------------
(* C9 *)

\* C9: create_article never raises on a success status: a 201 with an empty
\* body gives the 'created' result; otherwise a body that parses as JSON is
\* returned parsed; otherwise the status code and the raw text are returned.
C9_CreateNeverRaisesOnSuccess ==
    (last.op = "create_article" /\ Is2xx(last.response.status_code))
        => /\ last.outcome.kind = "return"
           /\ IF last.response.status_code = 201 /\ last.response.text = ""
              THEN /\ DOMAIN last.outcome.value = {"id", "status"}
                   /\ last.outcome.value.status = "created"
              ELSE IF ParseJSON(last.response.text).ok
              THEN last.outcome.value = ParseJSON(last.response.text).value
              ELSE last.outcome.value =
                      [status_code |-> last.response.status_code,
                       text |-> last.response.text]

C9_Witness ==
    /\ last.op = "create_article"
    /\ last.response.status_code = 200
    /\ last.response.text = "<html>"
    /\ last.outcome = Return([status_code |-> 200, text |-> "<html>"])

---------------------------------------------------------------------------
(* C10 *)

\* C10: every call hands the transport at most one request; get_article and
\* delete_article hand it exactly one, to 'articles/{id}' and without a body;
\* a failure response is reported by the call that received it, which has
\* made that one request only.
C10_NoRetries ==
    [][/\ calls' - calls \in {0, 1}
       /\ last'.requests = calls' - calls
       /\ last'.op \in {"get_article", "delete_article"}
             => /\ calls' = calls + 1
                /\ request'.method =
                      (IF last'.op = "get_article" THEN "GET" ELSE "DELETE")
                /\ request'.url = client.base_url \o Articles \o <<"/">>
                                      \o last'.args.article_id
                /\ request'.json = None
       /\ (/\ last'.op \in ArticleOps
           /\ last'.response # NoResponse
           /\ Is4xx5xx(last'.response.status_code))
             => /\ calls' = calls + 1
                /\ last'.outcome.kind = "raise"
                /\ last'.outcome.exc.type = "HelpScoutException"
                /\ last'.outcome.exc.message[4] = last'.response.status_code
      ]_vars

C10_Witness ==
    /\ calls = MaxCalls
    /\ last.op = "get_article"
    /\ last.response.status_code = 401
    /\ last.outcome.kind = "raise"
    /\ last.requests = 1

====
